---- MODULE Spec2Model ----
(***************************************************************************)
(* Model of src/ollama_chat.py: the session loop of chat(), the command    *)
(* interpreter handle_command() and the streamed-response consumer.        *)
(*                                                                         *)
(* Text is a sequence of one-character strings, so that str.split,         *)
(* str.lower, str.strip, str.startswith, " ".join and float() are computed *)
(* rather than assumed.  The built-in template texts are opaque to the     *)
(* code (only their truthiness is inspected by the modelled paths), each   *)
(* is a one-element sequence holding a tag for the whole text.             *)
(*                                                                         *)
(* A float is a record [kind, num, den]: kind "num" is the decimal num/den *)
(* with den a power of ten and no trailing zero digit, kind "nan" and      *)
(* "inf" are the IEEE specials, kind "ValueError" is float() raising.      *)
(***************************************************************************)
EXTENDS Integers, Sequences, FiniteSets, TLC

\* ------------------------------------------------------------------ bounds
\* chat turns started in one session
MaxTurns == 2
\* stream lines delivered in one session of Spec
MaxLines == 2
\* stream lines delivered in one session of SpecStream
MaxStreamLines == 4
\* the largest eval_count and the most seconds of a turn, in the sessions of
\* SpecTpm
MaxCount == 24
MaxElapsed == 24

\* ------------------------------------------------------------- text helpers
IsSpace(c) == c \in {" ", "\t"}

Min(S) == CHOOSE x \in S : \A y \in S : x <= y

\* length of the maximal whitespace-free prefix of text
WordLen(text) ==
    LET sp == {i \in 1..Len(text) : IsSpace(text[i])}
    IN  IF sp = {} THEN Len(text) ELSE Min(sp) - 1

\* str.split() with no separator: maximal runs of non-whitespace
RECURSIVE split(_)
split(text) ==
    IF text = <<>> THEN <<>>
    ELSE IF IsSpace(Head(text)) THEN split(Tail(text))
    ELSE LET n == WordLen(text)
         IN  <<SubSeq(text, 1, n)>> \o split(SubSeq(text, n + 1, Len(text)))

\* str.strip(): leading and trailing whitespace removed
strip(text) ==
    LET ns == {i \in 1..Len(text) : ~IsSpace(text[i])}
    IN  IF ns = {} THEN <<>>
        ELSE SubSeq(text, Min(ns), CHOOSE x \in ns : \A y \in ns : y <= x)

startswith(text, c) == Len(text) > 0 /\ text[1] = c

LowerChar(c) ==
    CASE c = "A" -> "a" [] c = "B" -> "b" [] c = "C" -> "c" [] c = "D" -> "d"
      [] c = "E" -> "e" [] c = "F" -> "f" [] c = "G" -> "g" [] c = "H" -> "h"
      [] c = "I" -> "i" [] c = "J" -> "j" [] c = "K" -> "k" [] c = "L" -> "l"
      [] c = "M" -> "m" [] c = "N" -> "n" [] c = "O" -> "o" [] c = "P" -> "p"
      [] c = "Q" -> "q" [] c = "R" -> "r" [] c = "S" -> "s" [] c = "T" -> "t"
      [] c = "U" -> "u" [] c = "V" -> "v" [] c = "W" -> "w" [] c = "X" -> "x"
      [] c = "Y" -> "y" [] c = "Z" -> "z" [] OTHER -> c

\* str.lower()
lower(text) == [i \in 1..Len(text) |-> LowerChar(text[i])]

\* sep.join(parts)
RECURSIVE join(_, _)
join(sep, parts) ==
    IF parts = <<>> THEN <<>>
    ELSE IF Len(parts) = 1 THEN parts[1]
    ELSE parts[1] \o sep \o join(sep, Tail(parts))

\* ------------------------------------------------------------------ float()
Digits == {"0", "1", "2", "3", "4", "5", "6", "7", "8", "9"}

DigitVal(c) ==
    CASE c = "0" -> 0 [] c = "1" -> 1 [] c = "2" -> 2 [] c = "3" -> 3
      [] c = "4" -> 4 [] c = "5" -> 5 [] c = "6" -> 6 [] c = "7" -> 7
      [] c = "8" -> 8 [] c = "9" -> 9

RECURSIVE DecValue(_)
DecValue(ds) ==
    IF ds = <<>> THEN 0
    ELSE DecValue(SubSeq(ds, 1, Len(ds) - 1)) * 10 + DigitVal(ds[Len(ds)])

RECURSIVE Pow10(_)
Pow10(n) == IF n = 0 THEN 1 ELSE 10 * Pow10(n - 1)

\* num/den with trailing zero digits of the fraction removed
RECURSIVE Reduce(_, _)
Reduce(num, den) ==
    IF den > 1 /\ num % 10 = 0 THEN Reduce(num \div 10, den \div 10)
    ELSE [kind |-> "num", num |-> num, den |-> den]

Float(num, den) == Reduce(num, den)
NaN == [kind |-> "nan", num |-> 0, den |-> 1]
Inf == [kind |-> "inf", num |-> 1, den |-> 1]
NegInf == [kind |-> "inf", num |-> -1, den |-> 1]
ValueError == [kind |-> "ValueError", num |-> 0, den |-> 1]

\* float(tok) for the decimal literals [+-]?digits[.digits] and [+-]?.digits,
\* and for nan / inf; exponent and underscore forms are not drawn as inputs.
float(tok) ==
    LET signed == Len(tok) > 0 /\ tok[1] \in {"+", "-"}
        neg    == Len(tok) > 0 /\ tok[1] = "-"
        body   == IF signed THEN Tail(tok) ELSE tok
        dots   == {i \in 1..Len(body) : body[i] = "."}
        dot    == IF dots = {} THEN Len(body) + 1 ELSE Min(dots)
        ip     == SubSeq(body, 1, dot - 1)
        fp     == SubSeq(body, dot + 1, Len(body))
        mag    == DecValue(ip \o fp)
    IN  IF lower(body) = <<"n", "a", "n">> THEN NaN
        ELSE IF lower(body) = <<"i", "n", "f">> THEN (IF neg THEN NegInf ELSE Inf)
        ELSE IF /\ \A i \in 1..Len(body) : body[i] \in Digits \cup {"."}
                /\ Cardinality(dots) <= 1
                /\ Len(ip) + Len(fp) > 0
             THEN Float(IF neg THEN 0 - mag ELSE mag, Pow10(Len(fp)))
        ELSE ValueError

\* the comparison 0.0 <= v <= 1.0 on floats (false for nan and the infinities)
InUnitRange(v) == v.kind = "num" /\ 0 <= v.num /\ v.num <= v.den

\* ------------------------------------------------------------ program data
\* Python's None for an absent template name (no text holds this element)
None == <<"<None>">>
\* Python's None for an absent float flag
NoFloat == [kind |-> "None", num |-> 0, den |-> 1]
\* Python's None for an absent integer flag
NoInt == [given |-> FALSE, val |-> 0]
Int_(n) == [given |-> TRUE, val |-> n]

DEFAULT_PARAMS ==
    [temperature |-> Float(7, 10), top_p |-> Float(9, 10),
     max_tokens |-> 2048, show_reasoning |-> TRUE]

coder == <<"c", "o", "d", "e", "r">>
writer == <<"w", "r", "i", "t", "e", "r">>
analyst == <<"a", "n", "a", "l", "y", "s", "t">>
teacher == <<"t", "e", "a", "c", "h", "e", "r">>
concise == <<"c", "o", "n", "c", "i", "s", "e">>
reasoning == <<"r", "e", "a", "s", "o", "n", "i", "n", "g">>

\* the keys of TEMPLATES in insertion order
TemplateNames == <<coder, writer, analyst, teacher, concise, reasoning>>

TemplateKeys == {TemplateNames[i] : i \in 1..Len(TemplateNames)}

TEMPLATES ==
    [name \in TemplateKeys |->
        CASE name = coder -> <<"You are an expert programmer. ...">>
          [] name = writer -> <<"You are a creative writer. ...">>
          [] name = analyst -> <<"You are a data analyst. ...">>
          [] name = teacher -> <<"You are a patient teacher. ...">>
          [] name = concise -> <<"You provide brief, direct answers without unnecessary details.">>
          [] name = reasoning -> <<"For each response: ...">>]

\* TEMPLATES.get(name, "")
TemplatesGet(name) == IF name \in TemplateKeys THEN TEMPLATES[name] ELSE <<>>

\* ChatConfig.__init__ followed by main()'s handling of --no-reasoning
ChatConfig(args) ==
    [temperature |-> IF args.temperature # NoFloat THEN args.temperature
                     ELSE DEFAULT_PARAMS.temperature,
     top_p |-> IF args.top_p # NoFloat THEN args.top_p ELSE DEFAULT_PARAMS.top_p,
     max_tokens |-> IF args.max_tokens.given THEN args.max_tokens.val
                    ELSE DEFAULT_PARAMS.max_tokens,
     template |-> args.template,
     current_template |-> TemplatesGet(args.template),
     show_reasoning |-> TRUE]

main(args) ==
    LET config == ChatConfig(args)
    IN  IF args.no_reasoning THEN [config EXCEPT !.show_reasoning = FALSE] ELSE config

\* ---------------------------------------------------------------- messages
Message(role, content) == [role |-> role, content |-> content]

\* print(colored(text, color)); color "none" is a plain print
Say(color, text) == [color |-> color, text |-> text]

\* what the user sees of a print: errors are the lines printed in red, the
\* metrics line is the one printed in yellow after a turn
Kind(printed) ==
    IF printed.color = "red" THEN "error"
    ELSE IF printed.text \in {"chunk", "metrics"} THEN printed.text
    ELSE "info"

\* the kinds of line a sequence of prints shows
Shown(prints) == {Kind(prints[i]) : i \in 1..Len(prints)}

\* ------------------------------------------------------------------ inputs
\* lines typed at the "You: " prompt
in_empty == <<>>
in_blank == <<" ", "\t">>
in_hi == <<"h", "i">>
in_hi_you == <<" ", "h", "i", " ", " ", "y", "o", "u">>
in_help == <<"/", "h", "e", "l", "p">>
in_reasoning_on == <<"/", "r", "e", "a", "s", "o", "n", "i", "n", "g", " ", "o", "n">>
in_reasoning_off == <<"/", "r", "e", "a", "s", "o", "n", "i", "n", "g", " ", "O", "F", "F">>
in_reasoning == <<"/", "r", "e", "a", "s", "o", "n", "i", "n", "g">>
in_reasoning_maybe == <<"/", "r", "e", "a", "s", "o", "n", "i", "n", "g", " ", "m", "a", "y", "b", "e">>
in_temp_0 == <<"/", "t", "e", "m", "p", " ", "-", "0">>
in_temp_1 == <<"/", "t", "e", "m", "p", " ", "1", ".", "0">>
in_temp_05 == <<"/", "t", "e", "m", "p", " ", "0", ".", "5">>
in_temp_15 == <<"/", "t", "e", "m", "p", " ", "1", ".", "5">>
in_temp_neg == <<"/", "t", "e", "m", "p", " ", "-", "0", ".", "1">>
in_temp_abc == <<"/", "t", "e", "m", "p", " ", "a", "b", "c">>
in_temp_nan == <<"/", "t", "e", "m", "p", " ", "n", "a", "n">>
in_temp == <<"/", "t", "e", "m", "p">>
in_temp_two == <<"/", "t", "e", "m", "p", " ", "0", ".", "5", " ", "0", ".", "2">>
in_params == <<"/", "p", "a", "r", "a", "m", "s">>
in_template == <<"/", "t", "e", "m", "p", "l", "a", "t", "e">>
in_template_list == <<"/", "t", "e", "m", "p", "l", "a", "t", "e", " ", "l", "i", "s", "t">>
in_template_use_coder == <<"/", "t", "e", "m", "p", "l", "a", "t", "e", " ", "u", "s", "e", " ", "C", "o", "d", "e", "r">>
in_template_use_nosuch == <<"/", "t", "e", "m", "p", "l", "a", "t", "e", " ", "u", "s", "e", " ", "n", "o", "s", "u", "c", "h">>
in_template_use == <<"/", "t", "e", "m", "p", "l", "a", "t", "e", " ", "u", "s", "e">>
in_template_show == <<"/", "t", "e", "m", "p", "l", "a", "t", "e", " ", "s", "h", "o", "w">>
in_template_custom == <<"/", "t", "e", "m", "p", "l", "a", "t", "e", " ", "c", "u", "s", "t", "o", "m", " ", "b", "e", " ", " ", "b", "r", "i", "e", "f">>
in_template_custom_none == <<"/", "t", "e", "m", "p", "l", "a", "t", "e", " ", "c", "u", "s", "t", "o", "m", " ">>
in_template_bogus == <<"/", "t", "e", "m", "p", "l", "a", "t", "e", " ", "b", "o", "g", "u", "s">>
in_clear == <<"/", "c", "l", "e", "a", "r">>
in_exit == <<"/", "e", "x", "i", "t">>
in_quit == <<"/", "q", "u", "i", "t">>
in_EXIT == <<"/", "E", "X", "I", "T">>
in_exit_now == <<"/", "e", "x", "i", "t", " ", "n", "o", "w">>
in_unknown == <<"/", "u", "n", "k", "n", "o", "w", "n">>
in_reset == <<"/", "r", "e", "s", "e", "t">>
in_top_p == <<"/", "t", "o", "p", "_", "p", " ", "0", ".", "5">>
in_tokens == <<"/", "t", "o", "k", "e", "n", "s", " ", "1", "0">>
in_slash == <<"/">>

\* the lines typed in the sessions of Spec
InputLines ==
    {in_empty, in_blank, in_hi_you, in_temp_0, in_help,
     in_reasoning_on, in_reasoning_off, in_reasoning, in_reasoning_maybe,
     in_temp_1, in_temp_05, in_temp_15,
     in_temp_neg, in_temp_abc, in_temp_nan, in_temp,
     in_temp_two, in_params, in_template, in_template_list,
     in_template_use_coder, in_template_use_nosuch, in_template_use, in_template_show,
     in_template_custom, in_template_custom_none, in_template_bogus, in_clear,
     in_exit, in_quit, in_EXIT, in_exit_now,
     in_unknown, in_reset, in_top_p, in_tokens,
     in_slash}

\* the lines typed in the sessions of SpecStream
TypedLines == {in_blank, in_hi, in_clear, in_exit}

\* The text functions tabulated over the texts that are typed, so that each
\* is computed once: Split[t] = split(t), and so on.
Texts == InputLines \cup TypedLines
Split == [text \in Texts |-> split(text)]
Strip == [text \in Texts |-> strip(text)]
Words == UNION {{Split[text][i] : i \in 1..Len(Split[text])} : text \in Texts}
Lower == [word \in Words |-> lower(word)]
ParseFloat == [word \in Words |-> float(word)]

\* ------------------------------------------------- the command interpreter
\* the string literals handle_command compares against
c_help == <<"/", "h", "e", "l", "p">>
c_reasoning == <<"/", "r", "e", "a", "s", "o", "n", "i", "n", "g">>
c_temp == <<"/", "t", "e", "m", "p">>
c_params == <<"/", "p", "a", "r", "a", "m", "s">>
c_template == <<"/", "t", "e", "m", "p", "l", "a", "t", "e">>
c_clear == <<"/", "c", "l", "e", "a", "r">>
c_exit == <<"/", "e", "x", "i", "t">>
c_quit == <<"/", "q", "u", "i", "t">>
w_on == <<"o", "n">>
w_off == <<"o", "f", "f">>
w_list == <<"l", "i", "s", "t">>
w_use == <<"u", "s", "e">>
w_show == <<"s", "h", "o", "w">>
w_custom == <<"c", "u", "s", "t", "o", "m">>

\* what a call of handle_command leaves behind: its return value, the
\* configuration and conversation it mutated in place, and what it printed
Outcome(ret, config, conversation, printed) ==
    [ret |-> ret, config |-> config, conversation |-> conversation, out |-> printed]

\* show_chat_help()
show_chat_help == <<Say("cyan", "Available Commands:")>>

\* elif command == "/reasoning"
cmd_reasoning(cmd_parts, config, conversation) ==
    IF Len(cmd_parts) = 2
    THEN IF Lower[cmd_parts[2]] \in {w_on, w_off}
         THEN LET flag == (Lower[cmd_parts[2]] = w_on)
              IN  Outcome(TRUE, [config EXCEPT !.show_reasoning = flag], conversation,
                          <<Say("green", IF flag THEN "Reasoning output enabled"
                                         ELSE "Reasoning output disabled")>>)
         ELSE Outcome(TRUE, config, conversation,
                      <<Say("red", "Invalid option. Use 'on' or 'off'")>>)
    ELSE Outcome(TRUE, config, conversation,
                 <<Say("cyan", "Current reasoning state:")>>)

\* cmd_temp without the range check of line 160
cmd_temp_unchecked(cmd_parts, config, conversation) ==
    IF Len(cmd_parts) = 2
    THEN LET temp == ParseFloat[cmd_parts[2]]
         IN  IF temp = ValueError
             THEN Outcome(TRUE, config, conversation,
                          <<Say("red", "Invalid temperature value")>>)
             ELSE Outcome(TRUE, [config EXCEPT !.temperature = temp], conversation,
                          <<Say("green", "Temperature set to")>>)
    ELSE Outcome(TRUE, config, conversation, <<>>)

\* elif command == "/temp"
cmd_temp(cmd_parts, config, conversation) ==
    IF Len(cmd_parts) = 2
    THEN LET temp == ParseFloat[cmd_parts[2]]
         IN  IF temp = ValueError
             THEN Outcome(TRUE, config, conversation,
                          <<Say("red", "Invalid temperature value")>>)
             ELSE IF InUnitRange(temp)
             THEN Outcome(TRUE, [config EXCEPT !.temperature = temp], conversation,
                          <<Say("green", "Temperature set to")>>)
             ELSE Outcome(TRUE, config, conversation,
                          <<Say("red", "Temperature must be between 0.0 and 1.0")>>)
    ELSE Outcome(TRUE, config, conversation, <<>>)

\* elif command == "/params"
cmd_params(cmd_parts, config, conversation) ==
    Outcome(TRUE, config, conversation, <<Say("cyan", "Current Parameters:")>>)

\* cmd_template with `/template use` also replacing the conversation's system
\* message by the new template
cmd_template_reseed(cmd_parts, config, conversation) ==
    IF Len(cmd_parts) < 2
    THEN Outcome(TRUE, config, conversation,
                 <<Say("red", "Missing template command. Use: list, use, show, or custom")>>)
    ELSE LET subcmd == Lower[cmd_parts[2]]
         IN  IF subcmd = w_use /\ Len(cmd_parts) = 3
             THEN LET template_name == Lower[cmd_parts[3]]
                  IN  IF template_name \in TemplateKeys
                      THEN Outcome(TRUE,
                                   [config EXCEPT !.template = template_name,
                                                  !.current_template = TEMPLATES[template_name]],
                                   <<Message("system", TEMPLATES[template_name])>>
                                   \o SelectSeq(conversation, LAMBDA m : m.role # "system"),
                                   <<Say("green", "Switched to template")>>)
                      ELSE Outcome(TRUE, config, conversation,
                                   <<Say("red", "Template not found")>>)
             ELSE Outcome(TRUE, config, conversation, <<>>)

\* cmd_template with config.template assigned before the registry test of
\* line 193
cmd_template_eager(cmd_parts, config, conversation) ==
    IF Len(cmd_parts) < 2
    THEN Outcome(TRUE, config, conversation,
                 <<Say("red", "Missing template command. Use: list, use, show, or custom")>>)
    ELSE LET subcmd == Lower[cmd_parts[2]]
         IN  IF subcmd = w_use /\ Len(cmd_parts) = 3
             THEN LET template_name == Lower[cmd_parts[3]]
                  IN  IF template_name \in TemplateKeys
                      THEN Outcome(TRUE,
                                   [config EXCEPT !.template = template_name,
                                                  !.current_template = TEMPLATES[template_name]],
                                   conversation,
                                   <<Say("green", "Switched to template")>>)
                      ELSE Outcome(TRUE, [config EXCEPT !.template = template_name],
                                   conversation,
                                   <<Say("red", "Template not found")>>)
             ELSE Outcome(TRUE, config, conversation, <<>>)

\* elif command == "/template"
cmd_template(cmd_parts, config, conversation) ==
    IF Len(cmd_parts) < 2
    THEN Outcome(TRUE, config, conversation,
                 <<Say("red", "Missing template command. Use: list, use, show, or custom")>>)
    ELSE LET subcmd == Lower[cmd_parts[2]]
         IN  IF subcmd = w_list
             THEN Outcome(TRUE, config, conversation,
                          <<Say("cyan", "Available templates:")>>
                          \o [i \in 1..Len(TemplateNames) |-> Say("none", "template entry")])
             ELSE IF subcmd = w_use /\ Len(cmd_parts) = 3
             THEN LET template_name == Lower[cmd_parts[3]]
                  IN  IF template_name \in TemplateKeys
                      THEN Outcome(TRUE,
                                   [config EXCEPT !.template = template_name,
                                                  !.current_template = TEMPLATES[template_name]],
                                   conversation,
                                   <<Say("green", "Switched to template")>>)
                      ELSE Outcome(TRUE, config, conversation,
                                   <<Say("red", "Template not found")>>)
             ELSE IF subcmd = w_show
             THEN IF config.current_template # <<>>
                  THEN Outcome(TRUE, config, conversation,
                               <<Say("cyan", "Current template:")>>)
                  ELSE Outcome(TRUE, config, conversation,
                               <<Say("yellow", "No template currently set")>>)
             ELSE IF subcmd = w_custom
             THEN LET custom_template == join(<<" ">>, SubSeq(cmd_parts, 3, Len(cmd_parts)))
                  IN  IF custom_template # <<>>
                      THEN Outcome(TRUE,
                                   [config EXCEPT !.current_template = custom_template,
                                                  !.template = w_custom],
                                   conversation,
                                   <<Say("green", "Custom template set")>>)
                      ELSE Outcome(TRUE, config, conversation,
                                   <<Say("red", "Please provide a template text")>>)
             ELSE Outcome(TRUE, config, conversation, <<>>)

\* cmd_clear without the append of lines 216-217
cmd_clear_empty(cmd_parts, config, conversation) ==
    Outcome(TRUE, config, <<>>, <<Say("green", "Conversation cleared")>>)

\* cmd_clear without the conversation.clear() of line 215
cmd_clear_append(cmd_parts, config, conversation) ==
    Outcome(TRUE, config,
            IF config.current_template # <<>>
            THEN Append(conversation, Message("system", config.current_template))
            ELSE conversation,
            <<Say("green", "Conversation cleared")>>)

\* elif command == "/clear"
cmd_clear(cmd_parts, config, conversation) ==
    Outcome(TRUE, config,
            IF config.current_template # <<>>
            THEN <<Message("system", config.current_template)>>
            ELSE <<>>,
            <<Say("green", "Conversation cleared")>>)

\* handle_command with `return False` as the fall-through of line 224
handle_command_strict(cmd, config, conversation) ==
    LET cmd_parts == Split[cmd]
        command == Lower[cmd_parts[1]]
    IN  IF command = c_help
        THEN Outcome(TRUE, config, conversation, show_chat_help)
        ELSE IF command = c_reasoning THEN cmd_reasoning(cmd_parts, config, conversation)
        ELSE IF command = c_temp THEN cmd_temp(cmd_parts, config, conversation)
        ELSE IF command = c_params THEN cmd_params(cmd_parts, config, conversation)
        ELSE IF command = c_template THEN cmd_template(cmd_parts, config, conversation)
        ELSE IF command = c_clear THEN cmd_clear(cmd_parts, config, conversation)
        ELSE Outcome(FALSE, config, conversation, <<>>)

handle_command(cmd, config, conversation) ==
    LET cmd_parts == Split[cmd]
        command == Lower[cmd_parts[1]]
    IN  IF command = c_help
        THEN Outcome(TRUE, config, conversation, show_chat_help)
        ELSE IF command = c_reasoning THEN cmd_reasoning(cmd_parts, config, conversation)
        ELSE IF command = c_temp THEN cmd_temp(cmd_parts, config, conversation)
        ELSE IF command = c_params THEN cmd_params(cmd_parts, config, conversation)
        ELSE IF command = c_template THEN cmd_template(cmd_parts, config, conversation)
        ELSE IF command = c_clear THEN cmd_clear(cmd_parts, config, conversation)
        ELSE IF command \in {c_exit, c_quit} THEN Outcome(FALSE, config, conversation, <<>>)
        ELSE Outcome(TRUE, config, conversation, <<>>)

\* ------------------------------------------------ the stream of one response
\* One line of response.iter_lines(), by what json.loads makes of it:
\*   json "empty"       an empty line (a keep-alive)
\*   json "invalid"     not JSON: json.loads raises JSONDecodeError
\*   json "undecodable" bytes that are no UTF-8: json.loads raises UnicodeDecodeError
\*   json "scalar"      JSON, but a number / null / boolean, not an object
\*   json "object"      a JSON object; message is "absent", "dict" (a nested
\*                      object, with or without "content") or "null";
\*                      eval is the "eval_count" member when given
Line(json, message, has_content, content, eval) ==
    [json |-> json, message |-> message, has_content |-> has_content,
     content |-> content, eval |-> eval]

EmptyLine == Line("empty", "absent", FALSE, <<>>, NoInt)
NotJson == Line("invalid", "absent", FALSE, <<>>, NoInt)
BadBytes == Line("undecodable", "absent", FALSE, <<>>, NoInt)
Scalar == Line("scalar", "absent", FALSE, <<>>, NoInt)
Chunk(content) == Line("object", "dict", TRUE, content, NoInt)
Eval(n) == Line("object", "absent", FALSE, <<>>, Int_(n))
\* the closing event of the server: an empty chunk together with the count
Final(n) == Line("object", "dict", TRUE, <<>>, Int_(n))
\* {"message": {}}
NoContent == Line("object", "dict", FALSE, <<>>, NoInt)
\* {"message": null}
NullMessage == Line("object", "null", FALSE, <<>>, NoInt)
\* an object with neither member, as {"error": "..."}
OtherObject == Line("object", "absent", FALSE, <<>>, NoInt)

\* the body of `for line in response.iter_lines()` for one line: the new
\* assistant_message and token_count, what was echoed, and the exception
\* other than JSONDecodeError that left the loop ("none" when none did)
consume(line, assistant_message, token_count) ==
    LET same(raised) == [raised |-> raised, assistant_message |-> assistant_message,
                         token_count |-> token_count, out |-> <<>>]
    IN  IF line.json = "empty" THEN same("none")
        ELSE IF line.json = "invalid" THEN same("none")
        ELSE IF line.json = "undecodable" THEN same("UnicodeDecodeError")
        ELSE IF line.json = "scalar" THEN same("TypeError")
        ELSE IF line.message = "null" THEN same("AttributeError")
        ELSE LET chunk == IF line.has_content THEN line.content ELSE <<>>
                 has_message == line.message = "dict"
             IN  [raised |-> "none",
                  assistant_message |-> IF has_message THEN assistant_message \o chunk
                                        ELSE assistant_message,
                  token_count |-> IF line.eval.given THEN line.eval.val ELSE token_count,
                  out |-> IF has_message THEN <<Say("none", "chunk")>> ELSE <<>>]

\* calculate_token_estimate
calculate_token_estimate(text) == Len(Split[text])

\* get_progress_bar raises ZeroDivisionError exactly when max_tokens is 0
get_progress_bar_raises(current_tokens, max_tokens) == max_tokens = 0

\* floor(log2(a / b)) for positive integers a and b
RECURSIVE FloorLog2(_, _)
FloorLog2(a, b) ==
    IF a >= 2 * b THEN FloorLog2(a, 2 * b) + 1
    ELSE IF a < b THEN FloorLog2(2 * a, b) - 1
    ELSE 0

RECURSIVE Pow2(_)
Pow2(n) == IF n = 0 THEN 1 ELSE 2 * Pow2(n - 1)

\* minutes = elapsed_time / 60 is a double: its 53-bit significand is the one
\* of e / 15 = e / 60 * 4, that is e * 2^s / 15 rounded to the nearest integer,
\* with s = 52 - floor(log2(e / 15)).  MinutesRounding is 15 times what the
\* rounding adds to the significand, from the remainder of e * 2^s by 15
\* (2^4 = 1 modulo 15): positive when minutes is above e / 60, negative when
\* below, 0 when exact.
MinutesRounding(e) ==
    LET s == 52 - FloorLog2(e, 15)
        r == ((e % 15) * Pow2(s % 4)) % 15
    IN  IF 2 * r < 15 THEN 0 - r ELSE 15 - r

\* tokens / minutes when 60 * tokens / e is a whole number N: the double
\* quotient is the double just below N exactly when minutes was rounded up
\* by more than half the gap between N and the double before it, which is
\* N * rounding * 2^(1 + p + E - L) > e with E = floor(log2(e / 15)),
\* L = floor(log2(N)) and p = 1 when N is a power of two, else 0.
QuotientBelow(tokens, e) ==
    LET N   == (tokens * 60) \div e
        rho == MinutesRounding(e)
        L   == FloorLog2(N, 1)
        p   == IF N = Pow2(L) THEN 1 ELSE 0
        x   == 1 + p + FloorLog2(e, 15) - L
    IN  /\ rho > 0
        /\ IF x >= 0 THEN N * rho * Pow2(x) > e ELSE N * rho > e * Pow2(0 - x)

\* calculate_tpm, on a whole number of seconds and a count that is not
\* negative: int() of the double quotient.  When 60 * tokens / e is not whole
\* the quotient is further than 1 / e from a whole number and the rounding
\* cannot reach one, so the integer part is the exact one.
calculate_tpm(tokens, elapsed_time) ==
    IF elapsed_time > 0
    THEN LET exact == (tokens * 60) \div elapsed_time
         IN  IF /\ tokens > 0
                /\ (tokens * 60) % elapsed_time = 0
                /\ QuotientBelow(tokens, elapsed_time)
             THEN exact - 1
             ELSE exact
    ELSE 0

\* int(text) of select_model's input: [+-]?digits between optional whitespace,
\* NoInt for ValueError
int(text) ==
    LET tok    == strip(text)
        signed == Len(tok) > 0 /\ tok[1] \in {"+", "-"}
        body   == IF signed THEN Tail(tok) ELSE tok
    IN  IF Len(body) > 0 /\ \A i \in 1..Len(body) : body[i] \in Digits
        THEN Int_(IF signed /\ tok[1] = "-" THEN 0 - DecValue(body) ELSE DecValue(body))
        ELSE NoInt

\* ------------------------------------------------------------ environment
\* the parsed command-line flags of main()
Args(temperature, top_p, max_tokens, template, no_reasoning) ==
    [temperature |-> temperature, top_p |-> top_p, max_tokens |-> max_tokens,
     template |-> template, no_reasoning |-> no_reasoning]

\* no flag at all; -t 1.5 --template concise --no-reasoning; -tp -0.5 -mt 0
ArgsSet ==
    {Args(NoFloat, NoFloat, NoInt, None, FALSE),
     Args(Float(15, 10), NoFloat, NoInt, concise, TRUE),
     Args(NoFloat, Float(-5, 10), Int_(0), None, FALSE)}

\* what GET /api/tags can give get_available_models
ModelLists == {<<>>, <<"llama3", "mistral">>}

\* the lines typed at the "Select a model" prompt
ChoiceLines == {<<" ", "2">>, <<"3">>, <<"0">>, <<"x">>}

hi_text == <<"H", "i">>
there_text == <<" ", "t", "h", "e", "r", "e">>

\* the lines a response can deliver
StreamLines ==
    {EmptyLine, NotJson, BadBytes, Scalar, NullMessage, NoContent, OtherObject,
     Chunk(hi_text), Chunk(there_text), Eval(5), Final(9)}

\* wall-clock seconds between the request and the end of the stream
ElapsedTimes == {0, 7}

\* ------------------------------------------------------------------- state
VARIABLES
    pc,                 \* where chat() stands: "Start", "SelectModel",
                        \* "AwaitingInput", "Streaming", "Exited"
    config,             \* the ChatConfig
    conversation,       \* the list of messages
    models,             \* get_available_models' result
    selected_model,
    request,            \* the body of the POST /api/chat in flight
    lines,              \* the lines iter_lines() has delivered in the turn in
                        \* progress or just over, until the next input is read
    assistant_message,
    token_count,
    out,                \* the kinds of line the last step printed
    metrics,            \* the metrics line the last step printed, if any
    raised,             \* the exception that ended the session, "none" if none
    turns,              \* chat turns started
    fed                 \* stream lines delivered in the session

vars == <<pc, config, conversation, models, selected_model, request,
          lines, assistant_message, token_count, out, metrics, raised, turns, fed>>

NoRequest == [model |-> "", messages |-> <<>>, stream |-> FALSE,
              temperature |-> NoFloat, top_p |-> NoFloat, max_tokens |-> 0]
NoMetrics == [printed |-> FALSE, tokens |-> 0, tpm |-> 0]

Init ==
    /\ pc = "Start"
    /\ \E args \in ArgsSet : config = main(args)
    /\ conversation = <<>>
    /\ models = <<>>
    /\ selected_model = ""
    /\ request = NoRequest
    /\ lines = <<>>
    /\ assistant_message = <<>>
    /\ token_count = 0
    /\ out = {}
    /\ metrics = NoMetrics
    /\ raised = "none"
    /\ turns = 0
    /\ fed = 0

\* ------------------------------------------------------------------ actions
\* the except clause of chat()'s loop: print the error and break (the
\* exception caught is kept in `raised`)
Failure == <<Say("red", "Error:")>>

\* get_available_models without the `if not models: return` of lines 231-233
get_available_models_unguarded ==
    /\ pc = "Start"
    /\ \E ok \in BOOLEAN, names \in ModelLists :
         LET fetched == IF ok THEN names ELSE <<>>
         IN  /\ models' = fetched
             /\ out' = Shown((IF ok THEN <<>> ELSE <<Say("none", "Error getting models:")>>)
                             \o <<Say("none", "Available models:")>>)
             /\ pc' = "SelectModel"
    /\ UNCHANGED <<config, conversation, selected_model, request, lines,
                   assistant_message, token_count, metrics, raised, turns, fed>>

\* chat(), lines 227-233: fetch the model list, give up when it is empty
get_available_models ==
    /\ pc = "Start"
    /\ \E ok \in BOOLEAN, names \in ModelLists :
         LET fetched == IF ok THEN names ELSE <<>>
         IN  /\ models' = fetched
             /\ out' = Shown((IF ok THEN <<>> ELSE <<Say("none", "Error getting models:")>>)
                             \o (IF fetched = <<>>
                                 THEN <<Say("red", "No models found. Exiting...")>>
                                 ELSE <<Say("none", "Available models:")>>))
             /\ pc' = IF fetched = <<>> THEN "Exited" ELSE "SelectModel"
    /\ UNCHANGED <<config, conversation, selected_model, request, lines,
                   assistant_message, token_count, metrics, raised, turns, fed>>

\* select_model's prompt loop (config has no attribute "model", so the
\* default is always None), then chat() lines 236-241 once a model is chosen
select_model ==
    /\ pc = "SelectModel"
    /\ \E text \in ChoiceLines :
         LET parsed == int(text)
             choice == parsed.val - 1
         IN  IF ~parsed.given
             THEN /\ out' = Shown(<<Say("red", "Please enter a number.")>>)
                  /\ UNCHANGED <<pc, selected_model, conversation>>
             ELSE IF 0 <= choice /\ choice < Len(models)
             THEN /\ selected_model' = models[choice + 1]
                  /\ conversation' = IF config.current_template # <<>>
                                     THEN <<Message("system", config.current_template)>>
                                     ELSE <<>>
                  /\ out' = Shown(<<Say("green", "Starting chat with"),
                                    Say("green", "Chat started (type /help for commands, /exit to quit)")>>)
                  /\ pc' = "AwaitingInput"
             ELSE /\ out' = Shown(<<Say("red", "Invalid choice. Please try again.")>>)
                  /\ UNCHANGED <<pc, selected_model, conversation>>
    /\ UNCHANGED <<config, models, request, lines, assistant_message,
                   token_count, metrics, raised, turns, fed>>

\* input() at the model prompt hits end of file: EOFError leaves chat()
select_model_eof ==
    /\ pc = "SelectModel"
    /\ pc' = "Exited"
    /\ raised' = "EOFError"
    /\ out' = {}
    /\ UNCHANGED <<config, conversation, models, selected_model, request,
                   lines, assistant_message, token_count, metrics, turns, fed>>

\* read_blank without the `continue` of line 249: the line goes on to line 262
read_blank_through(line) ==
    /\ pc = "AwaitingInput"
    /\ Strip[line] = <<>>
    /\ out' = {}
    /\ metrics' = NoMetrics
    /\ lines' = <<>>
    /\ conversation' = Append(conversation, Message("user", line))
    /\ UNCHANGED <<pc, config, models, selected_model, request,
                   assistant_message, token_count, raised, turns, fed>>

\* lines 245-249: a blank line
read_blank(line) ==
    /\ pc = "AwaitingInput"
    /\ Strip[line] = <<>>
    /\ out' = {}
    /\ metrics' = NoMetrics
    /\ lines' = <<>>
    /\ UNCHANGED <<pc, config, conversation, models, selected_model, request,
                   assistant_message, token_count, raised, turns, fed>>

\* lines 245-254: a line that starts with "/"
read_command(line) ==
    /\ pc = "AwaitingInput"
    /\ Strip[line] # <<>>
    /\ startswith(line, "/")
    /\ LET done == handle_command(line, config, conversation)
       IN  /\ config' = done.config
           /\ conversation' = done.conversation
           /\ out' = Shown(done.out)
           /\ pc' = IF done.ret THEN "AwaitingInput" ELSE "Exited"
    /\ metrics' = NoMetrics
    /\ lines' = <<>>
    /\ UNCHANGED <<models, selected_model, request, assistant_message,
                   token_count, raised, turns, fed>>

\* line 245: input() hits end of file, EOFError is caught at line 305
read_eof ==
    /\ pc = "AwaitingInput"
    /\ pc' = "Exited"
    /\ raised' = "EOFError"
    /\ out' = Shown(Failure)
    /\ metrics' = NoMetrics
    /\ lines' = <<>>
    /\ UNCHANGED <<config, conversation, models, selected_model, request,
                   assistant_message, token_count, turns, fed>>

\* chat_request with the request body of lines 264-271 built before the
\* append of line 262
chat_request_stale(line, sent) ==
    /\ pc = "AwaitingInput"
    /\ turns < MaxTurns
    /\ turns' = turns + 1
    /\ metrics' = NoMetrics
    /\ Strip[line] # <<>>
    /\ ~startswith(line, "/")
    /\ lines' = <<>>
    /\ LET current_tokens == calculate_token_estimate(line)
           messages == Append(conversation, Message("user", line))
           data == [model |-> selected_model, messages |-> conversation,
                    stream |-> TRUE, temperature |-> config.temperature,
                    top_p |-> config.top_p, max_tokens |-> config.max_tokens]
       IN  IF get_progress_bar_raises(current_tokens, config.max_tokens)
           THEN /\ pc' = "Exited"
                /\ raised' = "ZeroDivisionError"
                /\ out' = Shown(Failure)
                /\ UNCHANGED <<conversation, request, assistant_message, token_count>>
           ELSE /\ conversation' = messages
                /\ request' = data
                /\ IF sent
                   THEN /\ pc' = "Streaming"
                        /\ UNCHANGED raised
                        /\ assistant_message' = <<>>
                        /\ token_count' = 0
                        /\ out' = Shown(<<Say("none", "[Tokens: ...]"),
                                          Say("green", "Assistant:")>>)
                   ELSE /\ pc' = "Exited"
                        /\ raised' = "RequestException"
                        /\ out' = Shown(<<Say("none", "[Tokens: ...]")>> \o Failure)
                        /\ UNCHANGED <<assistant_message, token_count>>
    /\ UNCHANGED <<config, models, selected_model, fed>>

\* lines 245-280: any other line starts a chat turn; `sent` is whether
\* requests.post returned a response rather than raising
chat_request(line, sent) ==
    /\ pc = "AwaitingInput"
    /\ turns < MaxTurns
    /\ turns' = turns + 1
    /\ metrics' = NoMetrics
    /\ Strip[line] # <<>>
    /\ ~startswith(line, "/")
    /\ lines' = <<>>
    /\ LET current_tokens == calculate_token_estimate(line)
           messages == Append(conversation, Message("user", line))
           data == [model |-> selected_model, messages |-> messages,
                    stream |-> TRUE, temperature |-> config.temperature,
                    top_p |-> config.top_p, max_tokens |-> config.max_tokens]
       IN  IF get_progress_bar_raises(current_tokens, config.max_tokens)
           THEN /\ pc' = "Exited"
                /\ raised' = "ZeroDivisionError"
                /\ out' = Shown(Failure)
                /\ UNCHANGED <<conversation, request, assistant_message, token_count>>
           ELSE /\ conversation' = messages
                /\ request' = data
                /\ IF sent
                   THEN /\ pc' = "Streaming"
                        /\ UNCHANGED raised
                        /\ assistant_message' = <<>>
                        /\ token_count' = 0
                        /\ out' = Shown(<<Say("none", "[Tokens: ...]"),
                                          Say("green", "Assistant:")>>)
                   ELSE /\ pc' = "Exited"
                        /\ raised' = "RequestException"
                        /\ out' = Shown(<<Say("none", "[Tokens: ...]")>> \o Failure)
                        /\ UNCHANGED <<assistant_message, token_count>>
    /\ UNCHANGED <<config, models, selected_model, fed>>

\* lines 281-294: the stream delivers one more line
stream_line(line) ==
    /\ pc = "Streaming"
    /\ fed' = fed + 1
    /\ LET step == consume(line, assistant_message, token_count)
       IN  /\ lines' = Append(lines, line)
           /\ assistant_message' = step.assistant_message
           /\ token_count' = step.token_count
           /\ raised' = step.raised
           /\ out' = Shown(IF step.raised # "none" THEN Failure ELSE step.out)
           /\ pc' = IF step.raised # "none" THEN "Exited" ELSE "Streaming"
    /\ UNCHANGED <<config, conversation, models, selected_model, request,
                   metrics, turns>>

\* stream_fail with `continue` in place of the `break` of line 307
stream_fail_resume ==
    /\ pc = "Streaming"
    /\ pc' = "AwaitingInput"
    /\ raised' = "RequestException"
    /\ out' = Shown(Failure)
    /\ UNCHANGED <<config, conversation, models, selected_model, request,
                   lines, assistant_message, token_count, metrics, turns, fed>>

\* line 281: iter_lines() raises, the connection broke in mid-stream
stream_fail ==
    /\ pc = "Streaming"
    /\ pc' = "Exited"
    /\ raised' = "RequestException"
    /\ out' = Shown(Failure)
    /\ UNCHANGED <<config, conversation, models, selected_model, request,
                   lines, assistant_message, token_count, metrics, turns, fed>>

\* stream_end without the append of line 303
stream_end_unanswered(elapsed_time) ==
    /\ pc = "Streaming"
    /\ metrics' = [printed |-> TRUE, tokens |-> token_count,
                   tpm |-> calculate_tpm(token_count, elapsed_time)]
    /\ out' = Shown(<<Say("yellow", "metrics")>>)
    /\ pc' = "AwaitingInput"
    /\ request' = NoRequest
    /\ UNCHANGED <<config, conversation, models, selected_model, lines,
                   assistant_message, token_count, raised, turns, fed>>

\* lines 296-303: the stream ended
stream_end(elapsed_time) ==
    /\ pc = "Streaming"
    /\ metrics' = [printed |-> TRUE, tokens |-> token_count,
                   tpm |-> calculate_tpm(token_count, elapsed_time)]
    /\ out' = Shown(<<Say("yellow", "metrics")>>)
    /\ conversation' = Append(conversation, Message("assistant", assistant_message))
    /\ pc' = "AwaitingInput"
    /\ request' = NoRequest
    /\ UNCHANGED <<config, models, selected_model, lines, assistant_message,
                   token_count, raised, turns, fed>>

\* The session with every command line typed, against a server that sends
\* few kinds of line.
ServedLines == {Chunk(hi_text), Scalar}

Next ==
    \/ get_available_models
    \/ select_model
    \/ select_model_eof
    \/ \E line \in InputLines : read_blank(line)
    \/ \E line \in InputLines : read_command(line)
    \/ read_eof
    \/ \E line \in InputLines, sent \in BOOLEAN : chat_request(line, sent)
    \/ \E line \in ServedLines : fed < MaxLines /\ stream_line(line)
    \/ stream_fail
    \/ \E elapsed_time \in ElapsedTimes : stream_end(elapsed_time)

Spec == Init /\ [][Next]_vars

\* The session started without flags and with few lines typed, against a
\* server that sends every kind of line.
InitStream == Init /\ config = main(Args(NoFloat, NoFloat, NoInt, None, FALSE))

NextStream ==
    \/ get_available_models
    \/ select_model
    \/ select_model_eof
    \/ \E line \in TypedLines : read_blank(line)
    \/ \E line \in TypedLines : read_command(line)
    \/ read_eof
    \/ \E line \in TypedLines, sent \in BOOLEAN : chat_request(line, sent)
    \/ \E line \in StreamLines : fed < MaxStreamLines /\ stream_line(line)
    \/ stream_fail
    \/ \E elapsed_time \in ElapsedTimes : stream_end(elapsed_time)

SpecStream == InitStream /\ [][NextStream]_vars

\* The end of one turn, over the eval_count the stream delivered and the
\* seconds it took: the first turn of a session started without flags, its
\* stream having delivered one line, the count.
TpmCounts == 0..MaxCount
TpmElapsedTimes == -1..MaxElapsed

InitTpm ==
    /\ pc = "Streaming"
    /\ config = main(Args(NoFloat, NoFloat, NoInt, None, FALSE))
    /\ conversation = <<Message("user", in_hi)>>
    /\ models = <<"llama3", "mistral">>
    /\ selected_model = "llama3"
    /\ request = [model |-> selected_model, messages |-> conversation,
                  stream |-> TRUE, temperature |-> config.temperature,
                  top_p |-> config.top_p, max_tokens |-> config.max_tokens]
    /\ \E n \in TpmCounts :
         /\ lines = <<Eval(n)>>
         /\ token_count = consume(Eval(n), <<>>, 0).token_count
    /\ assistant_message = <<>>
    /\ out = {}
    /\ metrics = NoMetrics
    /\ raised = "none"
    /\ turns = 1
    /\ fed = 1

NextTpm == \E elapsed_time \in TpmElapsedTimes : stream_end(elapsed_time)

SpecTpm == InitTpm /\ [][NextTpm]_vars

\* ------------------------------------------------------------------ claims
\* 0.0 <= v <= 1.0
InRange01(v) == v.kind = "num" /\ v.num >= 0 /\ v.num <= v.den

\* the `/temp v` lines and the value each one gives
TempLines ==
    {in_temp_0, in_temp_1, in_temp_05, in_temp_15, in_temp_neg, in_temp_abc, in_temp_nan}

TypedTemp(line) ==
    CASE line = in_temp_0 -> [kind |-> "num", num |-> 0, den |-> 1]
      [] line = in_temp_1 -> [kind |-> "num", num |-> 1, den |-> 1]
      [] line = in_temp_05 -> [kind |-> "num", num |-> 5, den |-> 10]
      [] line = in_temp_15 -> [kind |-> "num", num |-> 15, den |-> 10]
      [] line = in_temp_neg -> [kind |-> "num", num |-> -1, den |-> 10]
      [] line = in_temp_abc -> [kind |-> "not a number", num |-> 0, den |-> 1]
      [] line = in_temp_nan -> [kind |-> "nan", num |-> 0, den |-> 1]

\* some line of the prints is an error, printed in red
ShowsError(prints) == \E i \in 1..Len(prints) : prints[i].color = "red"

\* C1: from every configuration a `/temp v` command sets the temperature to
\* v when 0.0 <= v <= 1.0; otherwise (out of range, or not a number) it
\* leaves the temperature at its prior value and shows an error; either way
\* it returns continue.  The temperature changes in the session only so.
C1_TempSetIffInRange ==
    /\ [](pc = "AwaitingInput" =>
            \A line \in TempLines :
              LET v == TypedTemp(line)
                  done == handle_command(line, config, conversation)
              IN  /\ done.ret
                  /\ IF InRange01(v)
                     THEN done.config.temperature = v
                     ELSE /\ done.config.temperature = config.temperature
                          /\ ShowsError(done.out))
    /\ [][config'.temperature # config.temperature =>
            \E line \in TempLines :
              /\ read_command(line)
              /\ InRange01(TypedTemp(line))
              /\ config'.temperature = TypedTemp(line)
              /\ pc' = "AwaitingInput"]_vars

\* a rejected command has left the temperature at the 0 that `/temp -0` set
C1_Witness ==
    /\ pc = "AwaitingInput"
    /\ config.temperature = [kind |-> "num", num |-> 0, den |-> 1]
    /\ "error" \in out

\* C2: in every reachable state temperature and top_p both lie in [0.0, 1.0].
C2_BoundedFieldsInRange ==
    InRange01(config.temperature) /\ InRange01(config.top_p)

\* the conversation of exactly one system message
SystemOnly(text) == <<[role |-> "system", content |-> text]>>

\* C3: `/clear` leaves the conversation as exactly one system message holding
\* the currently resolved template text when a template is active, and empty
\* when none is; with the coder template in use that message holds the coder
\* text.
C3_ClearReseeds ==
    [][read_command(in_clear) =>
         /\ conversation' = IF config.current_template # <<>>
                            THEN SystemOnly(config.current_template)
                            ELSE <<>>
         /\ (config.template = coder => conversation' = SystemOnly(TEMPLATES[coder]))]_vars

\* after a chat turn, `/template use coder` and `/clear` have left exactly
\* the coder system message
C3_Witness ==
    /\ pc = "AwaitingInput"
    /\ turns > 0
    /\ config.template = coder
    /\ conversation = SystemOnly(TEMPLATES[coder])

SystemMessages == {i \in 1..Len(conversation) : conversation[i].role = "system"}

\* C4: the conversation never holds more than one message with role system.
C4_AtMostOneSystem == Cardinality(SystemMessages) <= 1

\* two turns behind a system message that is no longer the active template
C4_Witness ==
    /\ Len(conversation) >= 5
    /\ SystemMessages = {1}
    /\ conversation[1].content # config.current_template
    /\ config.current_template # <<>>

\* a line that is a content chunk or an evaluation event
WellFormedEvent(line) ==
    /\ line.json = "object"
    /\ line.message # "null"
    /\ (line.message = "dict" /\ line.has_content) \/ line.eval.given

\* C5: a stream line that is no well-formed content chunk or evaluation
\* event is dropped without an error and without ending the turn.
C5_MalformedLineDropped ==
    [][\A line \in StreamLines :
         (pc = "Streaming" /\ lines' = Append(lines, line) /\ ~WellFormedEvent(line)) =>
           /\ pc' = "Streaming"
           /\ "error" \notin out'
           /\ assistant_message' = assistant_message
           /\ token_count' = token_count]_vars

ChunkOf(line) ==
    IF line.json = "object" /\ line.message = "dict" /\ line.has_content
    THEN line.content ELSE <<>>

RECURSIVE ConcatChunks(_)
ConcatChunks(ls) ==
    IF ls = <<>> THEN <<>> ELSE ChunkOf(Head(ls)) \o ConcatChunks(Tail(ls))

RECURSIVE LastEval(_)
LastEval(ls) ==
    IF ls = <<>> THEN 0
    ELSE LET line == ls[Len(ls)]
         IN  IF line.json = "object" /\ line.eval.given THEN line.eval.val
             ELSE LastEval(SubSeq(ls, 1, Len(ls) - 1))

\* the step that ends the stream of a turn other than by a transport error
StreamOver == pc = "Streaming" /\ pc' # "Streaming" /\ raised' # "RequestException"

\* C6: whatever lines the stream delivered, the assistant message appended
\* is the concatenation, in arrival order, of the content of its chunks.
C6_ReplyIsConcatenation ==
    [][StreamOver =>
         conversation' = Append(conversation,
                                [role |-> "assistant",
                                 content |-> ConcatChunks(lines')])]_vars

\* C7: whatever lines the stream delivered, the token total of the turn is
\* the count of the last evaluation event among them, 0 when there is none.
C7_TokensAreLastEval ==
    [][StreamOver =>
         /\ metrics'.printed
         /\ metrics'.tokens = LastEval(lines')]_vars

\* C8: a transport error in a chat turn ends the session: the loop is left,
\* nothing follows (no input is read, no request is repeated), no assistant
\* message is appended for the turn and no metrics line is printed.
C8_TransportErrorExits ==
    [][/\ pc # "Exited"
       /\ raised' = "RequestException" =>
            /\ pc' = "Exited"
            /\ ~metrics'.printed
            /\ "metrics" \notin out'
            /\ conversation' = request'.messages
            /\ conversation'[Len(conversation')].role = "user"]_vars

\* the stream broke after a chunk had arrived
C8_Witness ==
    /\ pc = "Exited"
    /\ raised = "RequestException"
    /\ assistant_message # <<>>
    /\ lines # <<>>

\* the lines whose command is exit or quit
ExitLines == {in_exit, in_quit, in_EXIT, in_exit_now}

\* the lines the loop hands to the command interpreter
CommandLines == {line \in InputLines : Strip[line] # <<>> /\ line[1] = "/"}

\* C9: the command interpreter returns terminate for exit and quit only, for
\* every other command line it returns continue; and the loop is left
\* without an exception only by reading an exit or quit line, which does
\* leave it.
C9_OnlyExitTerminates ==
    /\ [](pc = "AwaitingInput" =>
            \A line \in CommandLines :
              handle_command(line, config, conversation).ret = (line \notin ExitLines))
    /\ [][/\ (pc = "AwaitingInput" /\ pc' = "Exited" /\ raised' = "none") =>
               \E line \in ExitLines : read_command(line)
          /\ \A line \in ExitLines : read_command(line) => pc' = "Exited"]_vars

\* the session was left by a command, in mid-conversation
C9_Witness ==
    /\ pc = "Exited"
    /\ raised = "none"
    /\ selected_model # ""
    /\ Len(conversation) >= 2

\* unknown commands and known commands with a wrong number of arguments
MalformedLines ==
    {in_unknown, in_slash, in_temp, in_temp_two, in_template, in_template_use}

\* C10: an unknown command, or a known one with a wrong number of
\* arguments, shows an error before the loop is back at its prompt.
C10_MalformedShowsError ==
    [][\A line \in MalformedLines :
         read_command(line) => "error" \in out' /\ pc' = "AwaitingInput"]_vars

\* the command lines whose argument fails validation
RejectedLines ==
    {in_temp_15, in_temp_neg, in_temp_abc, in_temp_nan,
     in_template_use_nosuch, in_template_custom_none, in_reasoning_maybe}

\* C11: a command whose argument fails validation (`/temp` out of range or
\* not a number, `/template use` with an unknown name, `/template custom`
\* without text, `/reasoning` with another option than on/off) leaves every
\* field of the configuration and the whole conversation as they were, and
\* the loop continues.
C11_RejectedLeavesState ==
    /\ [](pc = "AwaitingInput" =>
            \A line \in RejectedLines :
              LET done == handle_command(line, config, conversation)
              IN  /\ done.ret
                  /\ done.config = config
                  /\ done.conversation = conversation)
    /\ [][\A line \in RejectedLines :
            read_command(line) =>
              /\ config' = config
              /\ conversation' = conversation
              /\ pc' = "AwaitingInput"]_vars

\* a command was rejected in mid-conversation, with a custom template set
\* and the reasoning switched off before
C11_Witness ==
    /\ pc = "AwaitingInput"
    /\ "error" \in out
    /\ config.template = w_custom
    /\ ~config.show_reasoning
    /\ Len(conversation) >= 2

\* C12: from every configuration the `/reset` command restores the defaults:
\* temperature 0.7, top_p 0.9, max_tokens 2048, reasoning enabled and no
\* active template.
C12_ResetRestoresDefaults ==
    [][read_command(in_reset) =>
         /\ config'.temperature = [kind |-> "num", num |-> 7, den |-> 10]
         /\ config'.top_p = [kind |-> "num", num |-> 9, den |-> 10]
         /\ config'.max_tokens = 2048
         /\ config'.show_reasoning
         /\ config'.template = None
         /\ config'.current_template = <<>>]_vars

\* the typed lines that are neither blank nor commands
ChatLines == {in_hi, in_hi_you}

\* C13: a chat turn that runs to the end of its stream extends the
\* conversation by exactly two messages: first the user message holding the
\* typed line, appended before the request is issued, so that the request
\* carries the whole conversation ending with it and the temperature, top_p
\* and max_tokens of that moment; then the assistant message holding the
\* assembled reply.
C13_TurnAppendsUserThenAssistant ==
    /\ [](pc = "Streaming" =>
            /\ request.messages = conversation
            /\ conversation[Len(conversation)].role = "user")
    /\ [][\A line \in ChatLines :
            chat_request(line, TRUE) /\ pc' = "Streaming" =>
              /\ conversation' = Append(conversation, [role |-> "user", content |-> line])
              /\ request'.messages = conversation'
              /\ request'.temperature = config.temperature
              /\ request'.top_p = config.top_p
              /\ request'.max_tokens = config.max_tokens]_vars
    /\ [][pc = "Streaming" /\ pc' = "AwaitingInput" =>
            conversation' = Append(request.messages,
                                   [role |-> "assistant",
                                    content |-> ConcatChunks(lines)])]_vars

\* a turn is over behind an earlier one: the line typed, then the reply
C13_Witness ==
    /\ pc = "AwaitingInput"
    /\ metrics.printed
    /\ Len(conversation) >= 4
    /\ conversation[Len(conversation) - 1] = [role |-> "user", content |-> in_hi_you]
    /\ conversation[Len(conversation)] = [role |-> "assistant", content |-> hi_text]

\* the typed lines made of nothing but whitespace
BlankLines == {line \in Texts : \A i \in 1..Len(line) : line[i] \in {" ", "\t"}}

\* C14: a blank or whitespace-only line has no side effect: the conversation
\* and every configuration field are unchanged, no request is issued, nothing
\* is printed, the line is neither run as a command nor sent as a chat
\* message, and the loop is back at its prompt.
C14_BlankLineNoEffect ==
    [][\A line \in BlankLines :
         /\ read_blank(line) =>
              /\ pc' = "AwaitingInput"
              /\ UNCHANGED <<config, conversation, request, turns, selected_model>>
              /\ out' = {}
         /\ ~read_command(line)
         /\ ~chat_request(line, TRUE)
         /\ ~chat_request(line, FALSE)]_vars

\* a blank line was read after a chat turn: nothing was printed for it
C14_Witness ==
    /\ pc = "AwaitingInput"
    /\ out = {}
    /\ Len(conversation) >= 2
    /\ conversation[Len(conversation)].role = "assistant"

\* the names in the fetched model list
ModelNames == {models[i] : i \in 1..Len(models)}

\* C15: when the model list comes back empty (also after a failed fetch) the
\* program has stopped before its loop: it is at no prompt, no model is
\* selected, no chat turn was started and no request sent; and the loop, at
\* its prompt or in a stream, runs only with a model chosen from the list.
C15_NoModelsAborts ==
    /\ (pc # "Start" /\ models = <<>>) =>
          /\ pc = "Exited"
          /\ selected_model = ""
          /\ turns = 0
          /\ request.model = "" /\ request.messages = <<>>
          /\ conversation = <<>>
    /\ pc \in {"AwaitingInput", "Streaming"} => selected_model \in ModelNames

\* the fetch failed: its error and "No models found" were printed, and the
\* program is over
C15_Witness ==
    /\ pc = "Exited"
    /\ models = <<>>
    /\ out = {"info", "error"}
    /\ selected_model = ""

\* C16: in every reachable state max_tokens is positive, and no chat turn
\* has been ended by the division of the progress bar.
C16_MaxTokensPositive ==
    /\ config.max_tokens > 0
    /\ raised # "ZeroDivisionError"

\* C17: tokens-per-minute is 0 when the elapsed time is not positive or the
\* token count is 0, and otherwise floor(tokens / (elapsed_seconds / 60)),
\* which is floor(60 * tokens / elapsed_seconds).
C17_TpmIsFloor ==
    [][\A elapsed_time \in TpmElapsedTimes :
         stream_end(elapsed_time) =>
           metrics'.tpm = IF elapsed_time <= 0 \/ token_count = 0 THEN 0
                          ELSE (60 * token_count) \div elapsed_time]_vars

\* what is left of a line behind its first n words, without the whitespace
\* around it
RECURSIVE DropWords(_, _)
DropWords(text, n) ==
    LET t == strip(text)
    IN  IF n = 0 THEN t ELSE DropWords(SubSeq(t, WordLen(t) + 1, Len(t)), n - 1)

\* the TEXT typed in the line `/template custom TEXT` of the sessions
TypedCustomText == DropWords(in_template_custom, 2)

\* C18: the template name and the resolved text agree in every state: the
\* name is absent iff the text is empty; under a registry name the text is
\* that registry entry; under the name "custom" the text is the non-empty
\* text last given to `/template custom`; and a successful `/template use
\* NAME` or `/template custom TEXT` sets name and text together.
C18_TemplateNameAndText ==
    /\ [](/\ config.template \in TemplateKeys \cup {None, w_custom}
          /\ (config.template = None) <=> (config.current_template = <<>>)
          /\ config.template \in TemplateKeys =>
               config.current_template = TEMPLATES[config.template]
          /\ config.template = w_custom =>
               config.current_template # <<>> /\ config.current_template = TypedCustomText)
    /\ [][/\ read_command(in_template_use_coder) =>
               config'.template = coder /\ config'.current_template = TEMPLATES[coder]
          /\ read_command(in_template_custom) =>
               config'.template = w_custom /\ config'.current_template = TypedCustomText]_vars

\* an optional system message first, then (user, assistant) pairs
WellShaped(conv) ==
    LET start == IF Len(conv) > 0 /\ conv[1].role = "system" THEN 1 ELSE 0
    IN  /\ (Len(conv) - start) % 2 = 0
        /\ \A i \in (start + 1)..Len(conv) :
             conv[i].role = IF (i - start) % 2 = 1 THEN "user" ELSE "assistant"

IsPrefix(s, t) == Len(s) <= Len(t) /\ SubSeq(t, 1, Len(s)) = s

\* C19: whenever the loop is at its prompt the conversation is an optional
\* system message at the front followed by (user, assistant) pairs in strict
\* alternation, with no unanswered user message at the end; and every step
\* other than `/clear` keeps the conversation it found as a prefix.
C19_ConversationShape ==
    /\ [](pc = "AwaitingInput" => WellShaped(conversation))
    /\ [][~read_command(in_clear) => IsPrefix(conversation, conversation')]_vars

\* two answered turns and no system message, although a template is active
\* by now
C19_Witness ==
    /\ pc = "AwaitingInput"
    /\ Len(conversation) = 4
    /\ conversation[1].role = "user"
    /\ config.current_template # <<>>

\* the system messages of a conversation, in order
SystemPart(conv) == SelectSeq(conv, LAMBDA m : m.role = "system")

\* the command lines other than `/clear`
KeepingLines == CommandLines \ {in_clear}

\* C20: among the commands only `/clear` changes the conversation:
\* `/template use`, `/template custom` and every other command leave it as
\* it was; so until the next `/clear` the system message stays the one seeded
\* at startup or by the last `/clear` (or stays absent), and that is the one
\* every later chat request carries, even when the active template has
\* changed since.
C20_OnlyClearChangesConversation ==
    /\ [](pc = "AwaitingInput" =>
            \A line \in KeepingLines :
              handle_command(line, config, conversation).conversation = conversation)
    /\ [][/\ \A line \in {in_template_use_coder, in_template_custom} :
               read_command(line) =>
                 conversation' = conversation /\ config'.current_template # <<>>
          /\ (pc \in {"AwaitingInput", "Streaming"} /\ ~read_command(in_clear)) =>
               SystemPart(conversation') = SystemPart(conversation)
          /\ (pc = "AwaitingInput" /\ pc' = "Streaming") =>
               SystemPart(request'.messages) = SystemPart(conversation)]_vars

\* a request in flight carries the system message seeded at startup although
\* a custom template has been set since
C20_Witness ==
    /\ pc = "Streaming"
    /\ config.template = w_custom
    /\ SystemPart(request.messages) # <<>>
    /\ request.messages[1].content # config.current_template

====
